---------------------------- MODULE Spec2Model ----------------------------
(***************************************************************************)
(* The document store of search-engine-from-scratch: Document,            *)
(* DocumentStore (src/src/documents.rs), the four request handlers         *)
(* (src/src/routes/documents.rs) and the RwLock-guarded shared state       *)
(* (src/src/app.rs).                                                        *)
(*                                                                         *)
(* Spec      the handlers as whole operations on the store, one request    *)
(*           at a time, with texts drawn from every string up to MaxLen.   *)
(* ConcSpec  the handlers as worker threads stepping through              *)
(*           RwLock::write / RwLock::read, the store operation and the     *)
(*           release of the guard.                                         *)
(* LiveSpec  ConcSpec with weak fairness of every worker's steps.          *)
(***************************************************************************)
EXTENDS Naturals, Sequences, FiniteSets

VARIABLES
    documents,  \* DocumentStore.documents: the HashMap's entries [key, value]
    req,        \* Spec: the request the last handler served
    resp,       \* Spec: the response it gave
    prior,      \* Spec: whether HashMap::insert found the key occupied
    pc,         \* ConcSpec: each worker's position in its handler
    local,      \* ConcSpec: each worker's request, built document and response
    writer,     \* ConcSpec: the holder of the RwLock's write guard, or NoThread
    readers,    \* ConcSpec: the holders of read guards
    started     \* ConcSpec: requests accepted so far

vars == <<documents, req, resp, prior, pc, local, writer, readers, started>>
seqVars == <<req, resp, prior>>
concVars == <<pc, local, writer, readers, started>>

---------------------------------------------------------------------------
(* Bounds and input sets *)

MaxLen == 2

Chars == {" ", "a", "-"}

\* Longer bodies, after the tests' "hello world" and "word1   word2\t\nword3"
LongTexts ==
    { <<"a", " ", "a">>,
      <<"a", " ", "-">>,
      <<"-", "a", "-">>,
      <<"a", " ", " ", "a", "\t", "\n", "a">> }

Texts == UNION {[1..n -> Chars] : n \in 0..MaxLen} \cup LongTexts

\* PUT and GET take any path segment as the key.
Keys == {"k1", "k2"}

\* Uuid::new_v4() yields some identifier; nothing in the handler keeps it
\* apart from the keys already in the store.
Uuids == Keys

NoKey == ""

StatusOK == 200

StatusNotFound == 404

---------------------------------------------------------------------------
(* Document *)

\* char::is_whitespace, as str::split_whitespace uses it
is_whitespace(c) == c \in {" ", "\t", "\n"}

\* str::split_whitespace: the maximal runs of non-whitespace characters,
\* scanned left to right; cur is the run being read, acc the runs finished.
RECURSIVE split_whitespace_from(_, _, _, _)
split_whitespace_from(text, i, cur, acc) ==
    IF i > Len(text)
    THEN IF cur = <<>> THEN acc ELSE Append(acc, cur)
    ELSE IF is_whitespace(text[i])
         THEN split_whitespace_from(text, i + 1, <<>>,
                  IF cur = <<>> THEN acc ELSE Append(acc, cur))
         ELSE split_whitespace_from(text, i + 1, Append(cur, text[i]), acc)

split_whitespace(text) == split_whitespace_from(text, 1, <<>>, <<>>)

\* A counting slip: every character counts as a word.
word_count_chars(text) == Len(text)

\* text.split_whitespace().count()
word_count_of(text) == Len(split_whitespace(text))

\* A constructor that forgets to count.
Document_new_uncounted(id, text) == [id |-> id, text |-> text, word_count |-> 0]

\* Document::new
Document_new(id, text) ==
    [id |-> id, text |-> text, word_count |-> word_count_of(text)]

---------------------------------------------------------------------------
(* DocumentStore *)

None == <<>>

Some(v) == <<v>>

\* An insert that adds the entry without evicting the key's old one.
HashMap_insert_keep(m, k, v) == m \cup {[key |-> k, value |-> v]}

\* HashMap::insert: the entry of k is replaced, or added
HashMap_insert(m, k, v) ==
    {e \in m : e.key # k} \cup {[key |-> k, value |-> v]}

\* HashMap::get
HashMap_get(m, k) ==
    IF \E e \in m : e.key = k
    THEN Some((CHOOSE e \in m : e.key = k).value)
    ELSE None

\* HashMap::iter: every entry once, in an order the map chooses
HashMap_iter(m) ==
    {s \in [1..Cardinality(m) -> m] :
        \A i, j \in 1..Cardinality(m) : i # j => s[i] # s[j]}

\* An insert that rebuilds the map around the new entry alone.
DocumentStore_insert_clear(store, document) ==
    {[key |-> document.id, value |-> document]}

\* DocumentStore::insert
DocumentStore_insert(store, document) ==
    HashMap_insert(store, document.id, document)

\* A lookup that misses every key.
DocumentStore_get_miss(store, id) == None

\* DocumentStore::get
DocumentStore_get(store, id) == HashMap_get(store, id)

\* An iterator that stops one entry short.
DocumentStore_iter_short(store) ==
    {SubSeq(s, 1, Len(s) - 1) : s \in HashMap_iter(store)}

\* DocumentStore::iter
DocumentStore_iter(store) == HashMap_iter(store)

---------------------------------------------------------------------------
(* The handlers, each as one operation (Spec) *)

Request(op, id, text) == [op |-> op, id |-> id, text |-> text]

Response(status, body) == [status |-> status, body |-> body]

\* POST /document
handle_create_document(text) ==
    \E id \in Uuids :
        LET document == Document_new(id, text) IN
        /\ prior' = (DocumentStore_get(documents, id) # None)
        /\ documents' = DocumentStore_insert(documents, document)
        /\ req' = Request("create", id, text)
        /\ resp' = Response(StatusOK, <<document>>)
        /\ UNCHANGED concVars

\* An update that answers 404 for a key it has not seen.
handle_update_document_strict(key, text) ==
    LET document == Document_new(key, text) IN
    /\ prior' = (DocumentStore_get(documents, key) # None)
    /\ documents' = IF prior' THEN DocumentStore_insert(documents, document)
                    ELSE documents
    /\ req' = Request("update", key, text)
    /\ resp' = Response(IF prior' THEN StatusOK ELSE StatusNotFound, <<>>)
    /\ UNCHANGED concVars

\* PUT /document/{key}
handle_update_document(key, text) ==
    LET document == Document_new(key, text) IN
    /\ prior' = (DocumentStore_get(documents, key) # None)
    /\ documents' = DocumentStore_insert(documents, document)
    /\ req' = Request("update", key, text)
    /\ resp' = Response(StatusOK, <<>>)
    /\ UNCHANGED concVars

\* GET /document/{key}
handle_get_document(key) ==
    LET found == DocumentStore_get(documents, key) IN
    /\ resp' = IF found # None
               THEN Response(StatusOK, <<found[1]>>)
               ELSE Response(StatusNotFound, <<>>)
    /\ req' = Request("get", key, <<>>)
    /\ UNCHANGED <<documents, prior>>
    /\ UNCHANGED concVars

\* GET /documents
handle_get_all_documents ==
    \E entries \in DocumentStore_iter(documents) :
        /\ resp' = Response(StatusOK,
                            [i \in 1..Len(entries) |-> entries[i].value])
        /\ req' = Request("list", NoKey, <<>>)
        /\ UNCHANGED <<documents, prior>>
        /\ UNCHANGED concVars

---------------------------------------------------------------------------
(* The handlers as worker threads sharing Arc<RwLock<AppState>> (ConcSpec) *)

NumThreads == 2

MaxRequests == 4

Threads == 1..NumThreads

NoThread == 0

ConcTexts == {<<"a">>, <<"a", " ", "-">>}

\* A worker between requests
Idle == [op |-> "none", id |-> NoKey, text |-> <<>>, word_count |-> 0,
         status |-> 0, body |-> <<>>]

\* The Document a create or update handler built before taking the lock
Built(op, document) ==
    [op |-> op, id |-> document.id, text |-> document.text,
     word_count |-> document.word_count, status |-> 0, body |-> <<>>]

DocumentOf(l) == [id |-> l.id, text |-> l.text, word_count |-> l.word_count]

\* The positions at which a worker holds the write guard, or a read guard
WriteSection == {"insert", "drop_write"}

ReadSection == {"get", "iter", "drop_read"}

\* A write lock granted while readers still hold the state.
can_write_over_readers(w, r) == w = NoThread

\* RwLock::write returns once no guard of either kind is held
can_write(w, r) == w = NoThread /\ r = {}

\* A read lock granted while a writer holds the state.
can_read_always(w, r) == TRUE

\* RwLock::read returns once no write guard is held
can_read(w, r) == w = NoThread

\* A write guard that is never released.
leak_write_guard(w, t) == w

\* Drop of the RwLockWriteGuard temporary at the end of the statement
drop_write_guard(w, t) == IF w = t THEN NoThread ELSE w

\* Drop of the RwLockReadGuard temporary
drop_read_guard(r, t) == r \ {t}

\* handle_create_document up to state.write()
StartCreate(t) ==
    /\ pc[t] = "idle" /\ started < MaxRequests
    /\ \E id \in Uuids, text \in ConcTexts :
           local' = [local EXCEPT ![t] = Built("create", Document_new(id, text))]
    /\ pc' = [pc EXCEPT ![t] = "write"]
    /\ started' = started + 1
    /\ UNCHANGED <<documents, writer, readers, seqVars>>

\* handle_update_document up to state.write()
StartUpdate(t) ==
    /\ pc[t] = "idle" /\ started < MaxRequests
    /\ \E key \in Keys, text \in ConcTexts :
           local' = [local EXCEPT ![t] = Built("update", Document_new(key, text))]
    /\ pc' = [pc EXCEPT ![t] = "write"]
    /\ started' = started + 1
    /\ UNCHANGED <<documents, writer, readers, seqVars>>

\* handle_get_document up to state.read()
StartGet(t) ==
    /\ pc[t] = "idle" /\ started < MaxRequests
    /\ \E key \in Keys :
           local' = [local EXCEPT ![t] = [Idle EXCEPT !.op = "get", !.id = key]]
    /\ pc' = [pc EXCEPT ![t] = "read"]
    /\ started' = started + 1
    /\ UNCHANGED <<documents, writer, readers, seqVars>>

\* handle_get_all_documents up to state.read()
StartList(t) ==
    /\ pc[t] = "idle" /\ started < MaxRequests
    /\ local' = [local EXCEPT ![t] = [Idle EXCEPT !.op = "list"]]
    /\ pc' = [pc EXCEPT ![t] = "read"]
    /\ started' = started + 1
    /\ UNCHANGED <<documents, writer, readers, seqVars>>

\* state.write().unwrap()
RwLock_write(t) ==
    /\ pc[t] = "write"
    /\ can_write(writer, readers)
    /\ writer' = t
    /\ pc' = [pc EXCEPT ![t] = "insert"]
    /\ UNCHANGED <<documents, local, readers, started, seqVars>>

\* state.read().unwrap()
RwLock_read(t) ==
    /\ pc[t] = "read"
    /\ can_read(writer, readers)
    /\ readers' = readers \cup {t}
    /\ pc' = [pc EXCEPT ![t] = IF local[t].op = "get" THEN "get" ELSE "iter"]
    /\ UNCHANGED <<documents, local, writer, started, seqVars>>

\* .document_store.insert(document), under the write guard
Insert(t) ==
    /\ pc[t] = "insert"
    /\ documents' = DocumentStore_insert(documents, DocumentOf(local[t]))
    /\ local' = [local EXCEPT ![t].status = StatusOK,
                              ![t].body = IF local[t].op = "create"
                                          THEN <<DocumentOf(local[t])>>
                                          ELSE <<>>]
    /\ pc' = [pc EXCEPT ![t] = "drop_write"]
    /\ UNCHANGED <<writer, readers, started, seqVars>>

\* .document_store.get(&key) and the clone of the match arm, under a read guard
GetDocument(t) ==
    /\ pc[t] = "get"
    /\ LET found == DocumentStore_get(documents, local[t].id) IN
       local' = [local EXCEPT
                    ![t].status = IF found # None THEN StatusOK ELSE StatusNotFound,
                    ![t].body = found]
    /\ pc' = [pc EXCEPT ![t] = "drop_read"]
    /\ UNCHANGED <<documents, writer, readers, started, seqVars>>

\* .document_store.iter().map(clone).collect(), under a read guard
IterDocuments(t) ==
    /\ pc[t] = "iter"
    /\ \E entries \in DocumentStore_iter(documents) :
           local' = [local EXCEPT
                        ![t].status = StatusOK,
                        ![t].body = [i \in 1..Len(entries) |-> entries[i].value]]
    /\ pc' = [pc EXCEPT ![t] = "drop_read"]
    /\ UNCHANGED <<documents, writer, readers, started, seqVars>>

\* The write guard dropped; the handler returns its response
DropWrite(t) ==
    /\ pc[t] = "drop_write"
    /\ writer' = drop_write_guard(writer, t)
    /\ pc' = [pc EXCEPT ![t] = "idle"]
    /\ local' = [local EXCEPT ![t] = Idle]
    /\ UNCHANGED <<documents, readers, started, seqVars>>

\* The read guard dropped; the handler returns its response
DropRead(t) ==
    /\ pc[t] = "drop_read"
    /\ readers' = drop_read_guard(readers, t)
    /\ pc' = [pc EXCEPT ![t] = "idle"]
    /\ local' = [local EXCEPT ![t] = Idle]
    /\ UNCHANGED <<documents, writer, started, seqVars>>

\* The steps of a request once it has started
Step(t) ==
    \/ RwLock_write(t)
    \/ RwLock_read(t)
    \/ Insert(t)
    \/ GetDocument(t)
    \/ IterDocuments(t)
    \/ DropWrite(t)
    \/ DropRead(t)

ConcNext ==
    \E t \in Threads :
        \/ StartCreate(t)
        \/ StartUpdate(t)
        \/ StartGet(t)
        \/ StartList(t)
        \/ Step(t)

---------------------------------------------------------------------------
(* Specifications *)

\* SharedState::default(): an empty store, no request served, the lock free
Init ==
    /\ documents = {}
    /\ req = Request("none", NoKey, <<>>)
    /\ resp = Response(0, <<>>)
    /\ prior = FALSE
    /\ pc = [t \in Threads |-> "idle"]
    /\ local = [t \in Threads |-> Idle]
    /\ writer = NoThread
    /\ readers = {}
    /\ started = 0

Create == \E text \in Texts : handle_create_document(text)

Update == \E key \in Keys, text \in Texts : handle_update_document(key, text)

Get == \E key \in Keys : handle_get_document(key)

List == handle_get_all_documents

\* document_routes: the four routes
Next == Create \/ Update \/ Get \/ List

Spec == Init /\ [][Next]_vars

ConcSpec == Init /\ [][ConcNext]_vars

\* Every worker thread keeps running: a request that can step, steps
LiveSpec == ConcSpec /\ \A t \in Threads : WF_vars(Step(t))

---------------------------------------------------------------------------
(* What the properties below are stated with *)

InsertOps == {"create", "update"}

Whitespace == {" ", "\t", "\n"}

Alphanumeric == {"a"}

\* The positions at which a word begins: a non-whitespace character that
\* opens the text or follows a whitespace character.
WordStarts(text) ==
    {i \in 1..Len(text) :
        /\ text[i] \notin Whitespace
        /\ (i = 1 \/ text[i - 1] \in Whitespace)}

\* The number of whitespace-separated words of a text
WordRuns(text) == Cardinality(WordStarts(text))

\* The last position of the word that begins at i
WordEnd(text, i) ==
    CHOOSE j \in i..Len(text) :
        /\ \A k \in i..j : text[k] \notin Whitespace
        /\ (j = Len(text) \/ text[j + 1] \in Whitespace)

\* A word with its leading and trailing non-alphanumeric characters stripped
Stripped(w) ==
    LET keep == {k \in 1..Len(w) : w[k] \in Alphanumeric} IN
    IF keep = {} THEN <<>>
    ELSE SubSeq(w, CHOOSE k \in keep : \A m \in keep : k <= m,
                   CHOOSE k \in keep : \A m \in keep : k >= m)

\* The tokenizer of the specification: split on whitespace, strip each
\* token, discard the tokens that become empty; its token count.
TokenCount(text) ==
    Cardinality({i \in WordStarts(text) :
                    Stripped(SubSeq(text, i, WordEnd(text, i))) # <<>>})

\* The documents stored under a key
Stored(k) == {e \in documents : e.key = k}

---------------------------------------------------------------------------
(* The claims *)

\* C1 (as amended): after insert_or_replace(id, text), by create or update,
\* get(id) returns a document whose text is the input text and whose
\* word_count is the number of whitespace-separated words of that text (no
\* stripping, no token discarded); a GET that answers 200 carries such a
\* document.
C1_RoundTripWords ==
    /\ req.op \in InsertOps =>
           DocumentStore_get(documents, req.id) =
               Some([id |-> req.id, text |-> req.text,
                     word_count |-> WordRuns(req.text)])
    /\ (req.op = "get" /\ resp.status = StatusOK) =>
           /\ Len(resp.body) = 1
           /\ resp.body[1].id = req.id
           /\ resp.body[1].word_count = WordRuns(resp.body[1].text)

\* C1 (as claimed): the returned document's length equals the token count of
\* the tokenizer that strips non-alphanumeric characters and discards the
\* tokens that become empty.
C1_RoundTripTokens ==
    req.op \in InsertOps =>
        DocumentStore_get(documents, req.id) =
            Some([id |-> req.id, text |-> req.text,
                  word_count |-> TokenCount(req.text)])

\* C1 witness: "a -" was created and is stored with two words.
C1_Witness ==
    /\ req.op = "create"
    /\ req.text = <<"a", " ", "-">>
    /\ DocumentStore_get(documents, req.id) # None
    /\ DocumentStore_get(documents, req.id)[1].word_count = 2

\* C2: an insert under an id that has a live document replaces it: get(id)
\* then returns the new text and word count, the store holds exactly one
\* document for that id and as many documents as before; and after every
\* request no id has more than one live document.
C2_ReplaceById ==
    [][ /\ \A k \in Keys : Cardinality({e \in documents' : e.key = k}) <= 1
        /\ \A e \in documents' : e.key \in Keys
        /\ (req'.op \in InsertOps /\ \E e \in documents : e.key = req'.id) =>
               /\ Cardinality(documents') = Cardinality(documents)
               /\ {e.value : e \in {x \in documents' : x.key = req'.id}} =
                      {[id |-> req'.id, text |-> req'.text,
                        word_count |-> WordRuns(req'.text)]}
      ]_vars

\* C2 witness: an update replaced the document of "k2" while "k1" was live.
C2_Witness ==
    /\ req.op = "update" /\ req.id = "k2" /\ prior
    /\ req.text = <<"a", " ", "a">>
    /\ Cardinality(documents) = 2
    /\ Cardinality(Stored("k2")) = 1

\* C3: GET /document/{id} answers 404 with no document when the id has no
\* live document and 200 with that document when it has one, and leaves the
\* store as it was.
C3_GetAbsentIsNotFound ==
    [][ req'.op = "get" =>
            /\ documents' = documents
            /\ IF \E e \in documents : e.key = req'.id
               THEN /\ resp'.status = StatusOK
                    /\ Len(resp'.body) = 1
                    /\ [key |-> req'.id, value |-> resp'.body[1]] \in documents
               ELSE resp' = Response(StatusNotFound, <<>>)
      ]_vars

\* C3 witness: a GET of an absent id answered 404 while another id was live.
C3_Witness ==
    /\ req.op = "get" /\ resp.status = StatusNotFound
    /\ Stored(req.id) = {}
    /\ documents # {}

\* C4: PUT /document/{id} never answers NotFound; afterwards exactly that id
\* holds a document with the text the update supplied, whether or not the
\* id had one before.
C4_UpdateCreatesOrReplaces ==
    req.op = "update" =>
        /\ resp.status = StatusOK
        /\ \E e \in documents :
               /\ e.key = req.id
               /\ e.value.id = req.id
               /\ e.value.text = req.text
        /\ DocumentStore_get(documents, req.id) # None
        /\ DocumentStore_get(documents, req.id)[1].text = req.text

\* C4 witness: an update of an id that had no document created it.
C4_Witness ==
    /\ req.op = "update" /\ req.id = "k1" /\ ~prior
    /\ resp.status = StatusOK
    /\ Stored("k1") # {}

\* C5: GET /documents lists every live document exactly once and nothing
\* else: the ids listed are the ids for which get succeeds, no id is listed
\* twice, and each listed document is the one get returns.
C5_ListIsTheLiveSet ==
    req.op = "list" =>
        /\ resp.status = StatusOK
        /\ {resp.body[i].id : i \in 1..Len(resp.body)} =
               {k \in Keys : DocumentStore_get(documents, k) # None}
        /\ \A i, j \in 1..Len(resp.body) :
               resp.body[i].id = resp.body[j].id => i = j
        /\ \A i \in 1..Len(resp.body) :
               DocumentStore_get(documents, resp.body[i].id) = Some(resp.body[i])

\* C5 witness: a listing of two live documents.
C5_Witness ==
    /\ req.op = "list"
    /\ Len(resp.body) = 2
    /\ Cardinality(documents) = 2

\* C6: a worker in its write section holds the write guard and no other
\* worker is in a write or read section; a worker in a read section holds a
\* read guard; and what a get has read is still what the store holds for as
\* long as its guard lives.
C6_ReadersWriterExclusion ==
    /\ \A t \in Threads :
           pc[t] \in WriteSection =>
               /\ writer = t
               /\ \A u \in Threads \ {t} :
                      pc[u] \notin WriteSection \cup ReadSection
    /\ \A t \in Threads : pc[t] \in ReadSection => t \in readers
    /\ \A t \in Threads :
           (pc[t] = "drop_read" /\ local[t].op = "get") =>
               local[t].body = DocumentStore_get(documents, local[t].id)

\* C6 witness: two workers hold read guards at once.
C6_Witness ==
    \E t, u \in Threads :
        /\ t # u
        /\ pc[t] \in ReadSection /\ pc[u] \in ReadSection
        /\ {t, u} \subseteq readers

C10_InsertFrame ==
    [][ /\ \A e \in documents' : e.key = e.value.id
        /\ req'.op \in InsertOps =>
               /\ \A e \in documents : e.key # req'.id => e \in documents'
               /\ \A e \in documents' : e.key # req'.id => e \in documents
               /\ Cardinality(documents') =
                      Cardinality(documents) +
                      (IF \E e \in documents : e.key = req'.id THEN 0 ELSE 1)
      ]_vars

\* C10 witness: a create added a second document beside the one of "k1".
C10_Witness ==
    /\ req.op = "create" /\ req.id = "k2" /\ ~prior
    /\ Stored("k1") # {}
    /\ Cardinality(documents) = 2

===========================================================================
